---- MODULE Spec2Model ----
(***************************************************************************)
(* Model of src/server.js: the ZuluMorphAnalyzer (analyzeWord, analyzeText) *)
(* and the request handlers POST /api/process-files and                     *)
(* POST /api/process-batch.                                                 *)
(*                                                                          *)
(* A JavaScript string is modelled as a sequence of one-character strings,  *)
(* so that toLowerCase, startsWith, indexOf, substring, split, trim and     *)
(* join are computed character by character.  A morpheme tag is a string    *)
(* atom; a tag that is not a string in JavaScript (a value inherited from   *)
(* Object.prototype) is represented by its string conversion.               *)
(***************************************************************************)
EXTENDS Integers, Sequences, FiniteSets, TLC

\* ------------------------------------------------------------------ bounds
MaxWordLen == 4
MaxTextLen == 4
MaxItems == 2

\* ------------------------------------------------- JavaScript string model
UpperCaseLetters ==
  <<"A","B","C","D","E","F","G","H","I","J","K","L","M",
    "N","O","P","Q","R","S","T","U","V","W","X","Y","Z">>

LowerCaseLetters ==
  <<"a","b","c","d","e","f","g","h","i","j","k","l","m",
    "n","o","p","q","r","s","t","u","v","w","x","y","z">>

Range(s) == {s[i] : i \in DOMAIN s}

\* the character class [A-Z]
IsUpperCase(c) == c \in Range(UpperCaseLetters)

toLowerCaseChar(c) ==
  IF IsUpperCase(c)
  THEN LowerCaseLetters[CHOOSE i \in DOMAIN UpperCaseLetters : UpperCaseLetters[i] = c]
  ELSE c

\* String.prototype.toLowerCase
toLowerCase(s) == [i \in 1..Len(s) |-> toLowerCaseChar(s[i])]

Min(a, b) == IF a < b THEN a ELSE b
Max(a, b) == IF a > b THEN a ELSE b

\* String.prototype.substring(start, end): both clamped to [0, length],
\* swapped when start > end; indices are 0-based, end exclusive.
substring(s, start, end) ==
  LET a == Max(0, Min(start, Len(s)))
      b == Max(0, Min(end, Len(s)))
  IN  SubSeq(s, Min(a, b) + 1, Max(a, b))

\* substring(start) with the end defaulting to the length
substringFrom(s, start) == substring(s, start, Len(s))

\* p occurs in s at 0-based index i
OccursAt(s, p, i) ==
  /\ i >= 0
  /\ i + Len(p) <= Len(s)
  /\ SubSeq(s, i + 1, i + Len(p)) = p

startsWith(s, p) == OccursAt(s, p, 0)

endsWith(s, p) == OccursAt(s, p, Len(s) - Len(p))

\* String.prototype.indexOf: the index of the FIRST occurrence, -1 if none
RECURSIVE indexOfFrom(_, _, _)
indexOfFrom(s, p, i) ==
  IF i + Len(p) > Len(s) THEN -1
  ELSE IF OccursAt(s, p, i) THEN i
  ELSE indexOfFrom(s, p, i + 1)

indexOf(s, p) == indexOfFrom(s, p, 0)

\* String.prototype.includes
includes(s, p) == indexOf(s, p) # -1

\* ------------------------------------------------ JavaScript object model
\* An object literal is the sequence of its key: value entries as written.
\* Its own keys are enumerated (for...in) in the order of their FIRST
\* appearance; a key written twice keeps the value written LAST.
RECURSIVE OwnKeysFrom(_, _, _)
OwnKeysFrom(literal, i, acc) ==
  IF i > Len(literal) THEN acc
  ELSE OwnKeysFrom(literal, i + 1,
         IF literal[i].key \in Range(acc) THEN acc ELSE Append(acc, literal[i].key))

OwnKeys(literal) == OwnKeysFrom(literal, 1, <<>>)

HasOwn(literal, k) == \E i \in DOMAIN literal : literal[i].key = k

\* variant: a key written twice keeps the value written first
OwnValueFirstWins(literal, k) ==
  literal[CHOOSE i \in DOMAIN literal :
            /\ literal[i].key = k
            /\ \A j \in DOMAIN literal : literal[j].key = k => j >= i].value

OwnValue(literal, k) ==
  literal[CHOOSE i \in DOMAIN literal :
            /\ literal[i].key = k
            /\ \A j \in DOMAIN literal : literal[j].key = k => j <= i].value

\* The value of an absent property.
Undefined == "undefined"

\* Properties every object literal inherits from Object.prototype, with the
\* string conversion of their values.  They are not enumerable, so for...in
\* skips them, but obj[key] finds them.
ObjectPrototype ==
  << [key |-> <<"c","o","n","s","t","r","u","c","t","o","r">>,
      value |-> "function Object() { [native code] }"],
     [key |-> <<"_","_","p","r","o","t","o","_","_">>,
      value |-> "[object Object]"],
     [key |-> <<"t","o","S","t","r","i","n","g">>,
      value |-> "function toString() { [native code] }"],
     [key |-> <<"v","a","l","u","e","O","f">>,
      value |-> "function valueOf() { [native code] }"],
     [key |-> <<"h","a","s","O","w","n","P","r","o","p","e","r","t","y">>,
      value |-> "function hasOwnProperty() { [native code] }"] >>

\* obj[k]: the own property, else the one inherited from Object.prototype
PropertyGet(literal, k) ==
  IF HasOwn(literal, k) THEN OwnValue(literal, k)
  ELSE IF HasOwn(ObjectPrototype, k) THEN OwnValue(ObjectPrototype, k)
  ELSE Undefined

\* truthiness of a property value (strings and inherited objects/functions)
Truthy(v) == v # Undefined /\ v # ""

\* --------------------------------------------------------------- rule tables
nounPrefixesLiteral ==
  << [key |-> <<"u","m","u">>,     value |-> [class |-> 1,  type |-> "NPrePre1"]],
     [key |-> <<"a","b","a">>,     value |-> [class |-> 2,  type |-> "NPrePre2"]],
     [key |-> <<"u","m","u">>,     value |-> [class |-> 3,  type |-> "NPrePre3"]],
     [key |-> <<"i","m","i">>,     value |-> [class |-> 4,  type |-> "NPrePre4"]],
     [key |-> <<"i","l","i">>,     value |-> [class |-> 5,  type |-> "NPrePre5"]],
     [key |-> <<"a","m","a">>,     value |-> [class |-> 6,  type |-> "NPrePre6"]],
     [key |-> <<"i","s","i">>,     value |-> [class |-> 7,  type |-> "NPrePre7"]],
     [key |-> <<"i","z","i">>,     value |-> [class |-> 8,  type |-> "NPrePre8"]],
     [key |-> <<"i","n">>,         value |-> [class |-> 9,  type |-> "NPrePre9"]],
     [key |-> <<"i","z","i","n">>, value |-> [class |-> 10, type |-> "NPrePre10"]],
     [key |-> <<"u","l","u">>,     value |-> [class |-> 11, type |-> "NPrePre11"]],
     [key |-> <<"u","b","u">>,     value |-> [class |-> 14, type |-> "NPrePre14"]],
     [key |-> <<"u","k","u">>,     value |-> [class |-> 15, type |-> "NPrePre15"]] >>

\* variant: the first 'umu' entry (class 1) is the visible one
NounPrefixInfoFirstWins(prefix) == OwnValueFirstWins(nounPrefixesLiteral, prefix)

\* this.nounPrefixes[prefix]
NounPrefixInfo(prefix) == OwnValue(nounPrefixesLiteral, prefix)

verbExtensions ==
  << [key |-> <<"e","l">>,         value |-> "ApplExt"],
     [key |-> <<"a","n">>,         value |-> "RecExt"],
     [key |-> <<"a","k","a","l">>, value |-> "NeutExt"],
     [key |-> <<"i","s">>,         value |-> "CausExt"],
     [key |-> <<"w">>,             value |-> "PassExt"] >>

commonMorphemes ==
  << [key |-> <<"n","g","a">>, value |-> "AdvPre"],
     [key |-> <<"k","a">>,     value |-> "AdvPre"],
     [key |-> <<"n","a">>,     value |-> "AdvPre"],
     [key |-> <<"k","u">>,     value |-> "LocPre"],
     [key |-> <<"e">>,         value |-> "LocPre"],
     [key |-> <<"s">>,         value |-> "PreLoc-s"],
     [key |-> <<"w","a">>,     value |-> "PossConc3"],
     [key |-> <<"y","a">>,     value |-> "PossConc4"],
     [key |-> <<"z","a">>,     value |-> "PossConc10"],
     [key |-> <<"k","w","a">>, value |-> "PossConc15"],
     [key |-> <<"n","g">>,     value |-> "CopPre"],
     [key |-> <<"o">>,         value |-> "RelConc3"],
     [key |-> <<"e","z","i">>, value |-> "RelConc10"],
     [key |-> <<"e","l","i">>, value |-> "RelConc5"],
     [key |-> <<"a","b","a">>, value |-> "RelConc2"] >>

quantifiers ==
  << [key |-> <<"d","w","a">>,     value |-> "QuantStem"],
     [key |-> <<"n","y","e">>,     value |-> "AdjStem"],
     [key |-> <<"b","i","l","i">>, value |-> "AdjStem"] >>

vocabulary ==
  << [key |-> <<"j","o","n","g","o">>,                 value |-> "NStem"],
     [key |-> <<"k","o","n","z","o">>,                 value |-> "NStem"],
     [key |-> <<"w","e","b","s","i","t","e">>,         value |-> "Foreign"],
     [key |-> <<"N","i","n","g","i","z","i","m","u">>, value |-> "ProperName"],
     [key |-> <<"A","f","r","i","k","a">>,             value |-> "ProperName"],
     [key |-> <<"t","h","o","l">>,                     value |-> "VRoot"],
     [key |-> <<"t","h","o","m","b","o">>,             value |-> "NStem"],
     [key |-> <<"a","z","i">>,                         value |-> "NStem"],
     [key |-> <<"h","u","l","u","m","e","n","i">>,     value |-> "NStem"],
     [key |-> <<"p","h","u","n","g","u","l">>,         value |-> "VRoot"],
     [key |-> <<"g","e","b","e">>,                     value |-> "NStem"],
     [key |-> <<"k","h","o","n","a">>,                 value |-> "Adv"],
     [key |-> <<"p","h","a","k","a","t","h","i">>,     value |-> "Adv"],
     [key |-> <<"n","d","l","a">>,                     value |-> "NStem"],
     [key |-> <<"n","o","t","h","o">>,                 value |-> "NStem"],
     [key |-> <<"k","h","a","k","h","a">>,             value |-> "NStem"],
     [key |-> <<"q","a","l">>,                         value |-> "VRoot"] >>

\* this.vocabulary[remaining]
VocabularyLookup(key) == PropertyGet(vocabulary, key)

basicPrefixes ==
  << [key |-> 1,  value |-> <<"m","u">>], [key |-> 2,  value |-> <<"b","a">>],
     [key |-> 3,  value |-> <<"m","u">>], [key |-> 4,  value |-> <<"m","i">>],
     [key |-> 5,  value |-> <<"l","i">>], [key |-> 6,  value |-> <<"m","a">>],
     [key |-> 7,  value |-> <<"s","i">>], [key |-> 8,  value |-> <<"z","i">>],
     [key |-> 9,  value |-> <<"n">>],     [key |-> 10, value |-> <<"z","i","n">>],
     [key |-> 11, value |-> <<"l","u">>], [key |-> 14, value |-> <<"b","u">>],
     [key |-> 15, value |-> <<"k","u">>] >>

\* getNounBasicPrefix(nounClass); <<>> stands for a missing (falsy) entry
getNounBasicPrefix(nounClass) ==
  IF HasOwn(basicPrefixes, nounClass) THEN OwnValue(basicPrefixes, nounClass) ELSE <<>>

Morpheme(m, t) == [morph |-> m, tag |-> t]

\* ------------------------------------------------ analyzeWord: the rule steps
\* for (let key in table) { if (remaining.startsWith(key)) ... break }:
\* the index of the first own key, in enumeration order, that remaining
\* starts with; 0 when the loop ends without a match.
RECURSIVE FirstStartsWith(_, _, _)
FirstStartsWith(keys, rem, i) ==
  IF i > Len(keys) THEN 0
  ELSE IF startsWith(rem, keys[i]) THEN i
  ELSE FirstStartsWith(keys, rem, i + 1)

\* for (let quant in table) { if (remaining === quant) ... break }
RECURSIVE FirstEqual(_, _, _)
FirstEqual(keys, rem, i) ==
  IF i > Len(keys) THEN 0
  ELSE IF rem = keys[i] THEN i
  ELSE FirstEqual(keys, rem, i + 1)

nounPrefixKeys == OwnKeys(nounPrefixesLiteral)
commonMorphemeKeys == OwnKeys(commonMorphemes)
verbExtensionKeys == OwnKeys(verbExtensions)
quantifierKeys == OwnKeys(quantifiers)

\* /^[.,!?;:]$/.test(word)
IsPunctuation(word) == Len(word) = 1 /\ word[1] \in {".", ",", "!", "?", ";", ":"}

\* /^[A-Z]/.test(originalWord) && originalWord.length > 2
IsProperName(word) == Len(word) > 0 /\ IsUpperCase(word[1]) /\ Len(word) > 2

\* noun prefixes: the matching key (0 if none), what is pushed, what remains
\* variant: the longest matching pattern is used instead of the first
NounPrefixMatchLongest(rem) ==
  IF \E i \in DOMAIN nounPrefixKeys : startsWith(rem, nounPrefixKeys[i])
  THEN CHOOSE i \in DOMAIN nounPrefixKeys :
         /\ startsWith(rem, nounPrefixKeys[i])
         /\ \A j \in DOMAIN nounPrefixKeys :
              startsWith(rem, nounPrefixKeys[j]) =>
                Len(nounPrefixKeys[j]) <= Len(nounPrefixKeys[i])
  ELSE 0

NounPrefixMatch(rem) == FirstStartsWith(nounPrefixKeys, rem, 1)

NounPrefixEmit(prefix) ==
  LET prefixInfo == NounPrefixInfo(prefix)
      first == << Morpheme(substring(prefix, 0, 1), prefixInfo.type) >>
      basicPrefix == getNounBasicPrefix(prefixInfo.class)
  IN  IF Len(prefix) > 1 /\ basicPrefix # <<>>
      THEN Append(first, Morpheme(basicPrefix, "BPre" \o ToString(prefixInfo.class)))
      ELSE first

\* variant: remaining advances by the one character emitted
NounPrefixRestOneChar(rem, prefix) == substringFrom(rem, 1)

NounPrefixRest(rem, prefix) == substringFrom(rem, Len(prefix))

\* common morphemes
CommonMorphemeMatch(rem) == FirstStartsWith(commonMorphemeKeys, rem, 1)

CommonMorphemeEmit(morpheme) ==
  << Morpheme(morpheme, OwnValue(commonMorphemes, morpheme)) >>

CommonMorphemeRest(rem, morpheme) == substringFrom(rem, Len(morpheme))

\* verb extensions: the pattern must be included and its indexOf must be > 0
\* variant: the test is index >= 0, so an empty root is accepted
VerbExtensionUsableAnyIndex(rem, ext) == includes(rem, ext) /\ indexOf(rem, ext) >= 0

VerbExtensionUsable(rem, ext) == includes(rem, ext) /\ indexOf(rem, ext) > 0

\* for (let ext in this.verbExtensions): the first key that passes both tests
RECURSIVE FirstUsableExtension(_, _, _)
FirstUsableExtension(keys, rem, i) ==
  IF i > Len(keys) THEN 0
  ELSE IF VerbExtensionUsable(rem, keys[i]) THEN i
  ELSE FirstUsableExtension(keys, rem, i + 1)

VerbExtensionMatch(rem) == FirstUsableExtension(verbExtensionKeys, rem, 1)

VerbExtensionEmit(rem, ext) ==
  << Morpheme(substring(rem, 0, indexOf(rem, ext)), "VRoot"),
     Morpheme(ext, OwnValue(verbExtensions, ext)) >>

VerbExtensionRest(rem, ext) == substringFrom(rem, indexOf(rem, ext) + Len(ext))

\* verb termination
VerbTerminationMatch(rem) ==
  /\ endsWith(rem, <<"a">>) /\ Len(rem) > 1
  /\ Len(substring(rem, 0, Len(rem) - 1)) > 0

VerbTerminationEmit(rem) ==
  << Morpheme(substring(rem, 0, Len(rem) - 1), "VRoot"),
     Morpheme(<<"a">>, "VerbTerm") >>

\* quantifiers
QuantifierMatch(rem) == FirstEqual(quantifierKeys, rem, 1)

QuantifierEmit(quant) == << Morpheme(quant, OwnValue(quantifiers, quant)) >>

\* stem
FallbackEmit(rem) == << Morpheme(rem, "NStem") >>

\* One pass through the body of the while loop: the category that fires
\* (1..6), what it pushes, the new value of remaining, and whether it breaks.
LoopBody(rem) ==
  IF NounPrefixMatch(rem) # 0 THEN
    LET prefix == nounPrefixKeys[NounPrefixMatch(rem)]
    IN  [rule |-> 1, emit |-> NounPrefixEmit(prefix),
         remaining |-> NounPrefixRest(rem, prefix), break |-> FALSE]
  ELSE IF CommonMorphemeMatch(rem) # 0 THEN
    LET morpheme == commonMorphemeKeys[CommonMorphemeMatch(rem)]
    IN  [rule |-> 2, emit |-> CommonMorphemeEmit(morpheme),
         remaining |-> CommonMorphemeRest(rem, morpheme), break |-> FALSE]
  ELSE IF VerbExtensionMatch(rem) # 0 THEN
    LET ext == verbExtensionKeys[VerbExtensionMatch(rem)]
    IN  [rule |-> 3, emit |-> VerbExtensionEmit(rem, ext),
         remaining |-> VerbExtensionRest(rem, ext), break |-> FALSE]
  ELSE IF VerbTerminationMatch(rem) THEN
    [rule |-> 4, emit |-> VerbTerminationEmit(rem), remaining |-> <<>>, break |-> FALSE]
  ELSE IF QuantifierMatch(rem) # 0 THEN
    [rule |-> 5, emit |-> QuantifierEmit(quantifierKeys[QuantifierMatch(rem)]),
     remaining |-> <<>>, break |-> FALSE]
  ELSE
    [rule |-> 6, emit |-> FallbackEmit(rem), remaining |-> rem, break |-> TRUE]

\* while (remaining.length > 0) { ... }
RECURSIVE StripLoop(_, _)
StripLoop(rem, morphs) ==
  IF Len(rem) > 0
  THEN LET s == LoopBody(rem)
       IN  IF s.break THEN morphs \o s.emit
           ELSE StripLoop(s.remaining, morphs \o s.emit)
  ELSE morphs

\* return morphemes.length > 0 ? morphemes : [{ morph: originalWord, tag: 'Unknown' }]
\* variant: no Unknown fallback
ReturnAlwaysMorphemes(word, morphs) == morphs

\* variant: the test is morphemes.length > 1
ReturnUnknownUnlessSeveral(word, morphs) ==
  IF Len(morphs) > 1 THEN morphs ELSE << Morpheme(word, "Unknown") >>

ReturnValue(word, morphs) ==
  IF Len(morphs) > 0 THEN morphs ELSE << Morpheme(word, "Unknown") >>

\* analyzeWord as a function of its argument
analyzeWord(word) ==
  IF IsPunctuation(word) THEN << Morpheme(word, "Punc") >>
  ELSE IF Truthy(VocabularyLookup(toLowerCase(word)))
       THEN << Morpheme(toLowerCase(word), VocabularyLookup(toLowerCase(word))) >>
  ELSE IF IsProperName(word) THEN << Morpheme(word, "ProperName") >>
  ELSE ReturnValue(word, StripLoop(toLowerCase(word), <<>>))

\* ----------------------------------------------------------------- state
VARIABLES
  originalWord,  \* analyzeWord: const originalWord = word
  remaining,     \* analyzeWord: let remaining
  morphemes,     \* analyzeWord: const morphemes = []
  pc,            \* analyzeWord: "classify", "loop", "return", "done"; "idle" when not called
  path,          \* analyzeWord: the return statement taken: "punctuation", "vocabulary",
                 \*   "properName", "loop", or "none" before any
  rule,          \* analyzeWord: the category (1..6) the last loop iteration fired, 0 before any
  before,        \* analyzeWord: the value of remaining when the last iteration began
  iterations,    \* analyzeWord: the number of loop iterations so far
  text,          \* analyzeText: the argument
  lines,         \* analyzeText: const lines
  lineIndex,     \* analyzeText: the forEach index of the next line (0-based)
  results,       \* analyzeText: const results
  output,        \* analyzeText: the returned string
  tpc,           \* analyzeText: "split", "forEach", "join", "done"; "idle" when not called
  route,         \* request: "process-files" or "process-batch"; "none" when no request
  payload,       \* request: req.files / req.body.texts
  itemIndex,     \* request: the number of items handled so far
  records,       \* request: const results
  response,      \* request: what res.json / res.status(..).json sent
  rpc            \* request: "validate", "items", "respond", "done"; "idle" when no request

wordVars == <<originalWord, remaining, morphemes, pc, path, rule, before, iterations>>
textVars == <<text, lines, lineIndex, results, output, tpc>>
requestVars == <<route, payload, itemIndex, records, response, rpc>>
vars == <<wordVars, textVars, requestVars>>

\* ------------------------------------------------------------- input words
Alphabet == {"a", "n", "i", "s", "w", "A", "."}

Words(n) == UNION {[1..k -> Alphabet] : k \in 0..n}

\* words over the letters of the overlapping patterns: dwa / w / aba, and
\* izi / izin / in / e / ezi / eli
OverlapWords(n) ==
  UNION {[1..k -> {"d", "w", "a", "b"}] : k \in 0..n}
    \cup UNION {[1..k -> {"e", "z", "i", "n", "l"}] : k \in 0..n}

SampleWords ==
  { <<",">>, <<"!">>, <<"?">>, <<";">>, <<":">>,
    <<"j","o","n","g","o">>, <<"J","o","n","g","o">>, <<"Q","a","l">>,
    <<"A","f","r","i","k","a">>, <<"a","f","r","i","k","a">>,
    <<"N","i","n","g","i","z","i","m","u">>,
    <<"c","o","n","s","t","r","u","c","t","o","r">>,
    <<"C","o","n","s","t","r","u","c","t","o","r">>,
    <<"_","_","p","r","o","t","o","_","_">>,
    <<"t","o","S","t","r","i","n","g">>,
    <<"n","y","e">>, <<"d","w","a">>, <<"s","b","i","l","i">>,
    <<"u","m","u","n","t","u">>, <<"a","b","a","n","t","u">>,
    <<"i","z","i","n","j","a">>, <<"u","k","u","f","u","n","d","a">>,
    <<"a","n","x","a","n">>, <<"f","u","n","d","i","s","a">>,
    <<"b","o","n","a","n","a">>, <<"k","w","a","z","u","l","u">>,
    <<"n","a","u","m","u","z","i">>, <<"a","n","w","a","n">>,
    <<"e","z","i","n","j","a">>, <<"e","l","i","z","w","e">>,
    <<"s","d","w","a">>, <<"D","w","a">>,
    <<"Z","u">> }

\* --------------------------------------------- analyzeWord as a state machine
TextIdle ==
  /\ text = <<>> /\ lines = <<>> /\ lineIndex = 0
  /\ results = <<>> /\ output = <<>> /\ tpc = "idle"

RequestIdle ==
  /\ route = "none" /\ payload = <<>> /\ itemIndex = 0
  /\ records = <<>>
  /\ response = [code |-> 0, success |-> FALSE, error |-> "", results |-> <<>>]
  /\ rpc = "idle"

WordIdle ==
  /\ originalWord = <<>> /\ remaining = <<>> /\ morphemes = <<>> /\ pc = "idle"
  /\ path = "none" /\ rule = 0 /\ before = <<>> /\ iterations = 0

\* lines 115-117
InitWord ==
  /\ originalWord \in Words(MaxWordLen) \cup OverlapWords(MaxWordLen) \cup SampleWords
  /\ remaining = toLowerCase(originalWord)
  /\ morphemes = <<>>
  /\ pc = "classify"
  /\ path = "none" /\ rule = 0 /\ before = <<>> /\ iterations = 0
  /\ TextIdle /\ RequestIdle

Return(p, result) ==
  /\ morphemes' = result
  /\ path' = p
  /\ pc' = "done"
  /\ UNCHANGED <<originalWord, remaining, rule, before, iterations, textVars, requestVars>>

\* lines 120-122
ClassifyPunctuation ==
  /\ pc = "classify"
  /\ IsPunctuation(originalWord)
  /\ Return("punctuation", << Morpheme(originalWord, "Punc") >>)

\* lines 125-127
ClassifyVocabulary ==
  /\ pc = "classify"
  /\ ~IsPunctuation(originalWord)
  /\ Truthy(VocabularyLookup(remaining))
  /\ Return("vocabulary", << Morpheme(remaining, VocabularyLookup(remaining)) >>)

\* lines 130-132
ClassifyProperName ==
  /\ pc = "classify"
  /\ ~IsPunctuation(originalWord)
  /\ ~Truthy(VocabularyLookup(remaining))
  /\ IsProperName(originalWord)
  /\ Return("properName", << Morpheme(originalWord, "ProperName") >>)

\* no fast path returned: control reaches the while statement
EnterLoop ==
  /\ pc = "classify"
  /\ ~IsPunctuation(originalWord)
  /\ ~Truthy(VocabularyLookup(remaining))
  /\ ~IsProperName(originalWord)
  /\ pc' = "loop"
  /\ UNCHANGED <<originalWord, remaining, morphemes, path, rule, before, iterations,
                 textVars, requestVars>>

\* one iteration that ends in "continue": push, advance, count
Iterate(category, emit, rest) ==
  /\ morphemes' = morphemes \o emit
  /\ remaining' = rest
  /\ rule' = category
  /\ before' = remaining
  /\ iterations' = iterations + 1
  /\ UNCHANGED <<originalWord, pc, path, textVars, requestVars>>

\* lines 139-158
NounPrefixRule ==
  /\ pc = "loop" /\ Len(remaining) > 0
  /\ NounPrefixMatch(remaining) # 0
  /\ LET prefix == nounPrefixKeys[NounPrefixMatch(remaining)]
     IN  Iterate(1, NounPrefixEmit(prefix), NounPrefixRest(remaining, prefix))

\* lines 161-170
CommonMorphemeRule ==
  /\ pc = "loop" /\ Len(remaining) > 0
  /\ NounPrefixMatch(remaining) = 0
  /\ CommonMorphemeMatch(remaining) # 0
  /\ LET morpheme == commonMorphemeKeys[CommonMorphemeMatch(remaining)]
     IN  Iterate(2, CommonMorphemeEmit(morpheme), CommonMorphemeRest(remaining, morpheme))

\* lines 173-188
VerbExtensionRule ==
  /\ pc = "loop" /\ Len(remaining) > 0
  /\ NounPrefixMatch(remaining) = 0
  /\ CommonMorphemeMatch(remaining) = 0
  /\ VerbExtensionMatch(remaining) # 0
  /\ LET ext == verbExtensionKeys[VerbExtensionMatch(remaining)]
     IN  Iterate(3, VerbExtensionEmit(remaining, ext), VerbExtensionRest(remaining, ext))

\* lines 191-201
VerbTerminationRule ==
  /\ pc = "loop" /\ Len(remaining) > 0
  /\ NounPrefixMatch(remaining) = 0
  /\ CommonMorphemeMatch(remaining) = 0
  /\ VerbExtensionMatch(remaining) = 0
  /\ VerbTerminationMatch(remaining)
  /\ Iterate(4, VerbTerminationEmit(remaining), <<>>)

\* lines 204-213
QuantifierRule ==
  /\ pc = "loop" /\ Len(remaining) > 0
  /\ NounPrefixMatch(remaining) = 0
  /\ CommonMorphemeMatch(remaining) = 0
  /\ VerbExtensionMatch(remaining) = 0
  /\ ~VerbTerminationMatch(remaining)
  /\ QuantifierMatch(remaining) # 0
  /\ Iterate(5, QuantifierEmit(quantifierKeys[QuantifierMatch(remaining)]), <<>>)

NoRuleMatches ==
  /\ NounPrefixMatch(remaining) = 0
  /\ CommonMorphemeMatch(remaining) = 0
  /\ VerbExtensionMatch(remaining) = 0
  /\ ~VerbTerminationMatch(remaining)
  /\ QuantifierMatch(remaining) = 0

\* variant: the stem is pushed but the break is missing
FallbackStemNoBreak ==
  /\ pc = "loop" /\ Len(remaining) > 0
  /\ NoRuleMatches
  /\ Iterate(6, FallbackEmit(remaining), remaining)

\* lines 216-217: push the stem and break
FallbackStem ==
  /\ pc = "loop" /\ Len(remaining) > 0
  /\ NoRuleMatches
  /\ morphemes' = morphemes \o FallbackEmit(remaining)
  /\ rule' = 6
  /\ before' = remaining
  /\ iterations' = iterations + 1
  /\ pc' = "return"
  /\ UNCHANGED <<originalWord, remaining, path, textVars, requestVars>>

\* line 135: the while condition is false
LoopExit ==
  /\ pc = "loop" /\ ~(Len(remaining) > 0)
  /\ pc' = "return"
  /\ UNCHANGED <<originalWord, remaining, morphemes, path, rule, before, iterations,
                 textVars, requestVars>>

\* line 220
ReturnMorphemes ==
  /\ pc = "return"
  /\ Return("loop", ReturnValue(originalWord, morphemes))

NextWord ==
  \/ ClassifyPunctuation
  \/ ClassifyVocabulary
  \/ ClassifyProperName
  \/ EnterLoop
  \/ NounPrefixRule
  \/ CommonMorphemeRule
  \/ VerbExtensionRule
  \/ VerbTerminationRule
  \/ QuantifierRule
  \/ FallbackStem
  \/ LoopExit
  \/ ReturnMorphemes

SpecWord == InitWord /\ [][NextWord]_vars

\* ------------------------------------------------ analyzeText: string helpers
\* the characters \s matches and trim() strips
IsWhiteSpace(c) == c \in {" ", "\t", "\n", "\r"}

\* String.prototype.split(separator) for a one-character separator
RECURSIVE SplitFrom(_, _, _, _)
SplitFrom(s, sep, i, acc) ==
  \* acc: the pieces so far, the last one still open
  IF i > Len(s) THEN acc
  ELSE IF s[i] = sep THEN SplitFrom(s, sep, i + 1, Append(acc, <<>>))
  ELSE SplitFrom(s, sep, i + 1,
         [acc EXCEPT ![Len(acc)] = Append(acc[Len(acc)], s[i])])

split(s, sep) == SplitFrom(s, sep, 1, << <<>> >>)

\* String.prototype.split(/\s+/): a maximal run of white space is one separator
RECURSIVE SplitWhiteSpaceFrom(_, _, _)
SplitWhiteSpaceFrom(s, i, acc) ==
  IF i > Len(s) THEN acc
  ELSE IF IsWhiteSpace(s[i])
       THEN IF i > 1 /\ IsWhiteSpace(s[i - 1])
            THEN SplitWhiteSpaceFrom(s, i + 1, acc)
            ELSE SplitWhiteSpaceFrom(s, i + 1, Append(acc, <<>>))
  ELSE SplitWhiteSpaceFrom(s, i + 1,
         [acc EXCEPT ![Len(acc)] = Append(acc[Len(acc)], s[i])])

splitWhiteSpace(s) == SplitWhiteSpaceFrom(s, 1, << <<>> >>)

\* String.prototype.trim
RECURSIVE trimStart(_)
trimStart(s) ==
  IF Len(s) > 0 /\ IsWhiteSpace(s[1]) THEN trimStart(Tail(s)) ELSE s

RECURSIVE trimEnd(_)
trimEnd(s) ==
  IF Len(s) > 0 /\ IsWhiteSpace(s[Len(s)]) THEN trimEnd(SubSeq(s, 1, Len(s) - 1)) ELSE s

trim(s) == trimEnd(trimStart(s))

\* Array.prototype.join
RECURSIVE join(_, _)
join(parts, sep) ==
  IF Len(parts) = 0 THEN <<>>
  ELSE IF Len(parts) = 1 THEN parts[1]
  ELSE parts[1] \o sep \o join(Tail(parts), sep)

\* line => line.trim(): the callback's result is truthy iff it is not ""
IsKeptLine(line) == Len(trim(line)) > 0

\* Array.prototype.filter with that callback
RECURSIVE filterLines(_)
filterLines(arr) ==
  IF Len(arr) = 0 THEN <<>>
  ELSE IF IsKeptLine(arr[1]) THEN <<arr[1]>> \o filterLines(Tail(arr))
  ELSE filterLines(Tail(arr))

\* the decimal digits of a non-negative integer, as `${n}` writes them
DigitChars == <<"0", "1", "2", "3", "4", "5", "6", "7", "8", "9">>

RECURSIVE numberToString(_)
numberToString(n) ==
  IF n < 10 THEN << DigitChars[n + 1] >>
  ELSE Append(numberToString(n \div 10), DigitChars[(n % 10) + 1])

\* `${m.morph}[${m.tag}]`: the tag is written as one atom
formatMorpheme(m) == m.morph \o <<"[", m.tag, "]">>

\* formatMorphAnalysis(word, morphemes)
formatMorphAnalysis(word, morphs) ==
  join([i \in 1..Len(morphs) |-> formatMorpheme(morphs[i])], <<"-">>)

\* text.split('\n').filter(line => line.trim()): an empty string is falsy
KeptLines(t) == filterLines(split(t, "\n"))

\* variant: the forEach index is used as the line number
LineNumberZeroBased(index) == index

\* const lineNumber = index + 1
LineNumber(index) == index + 1

\* line.trim().split(/\s+/)
WordsOfLine(line) == splitWhiteSpace(trim(line))

\* the body of lines.forEach: the string pushed onto results
AnalyzeLine(line, index) ==
  LET words == WordsOfLine(line)
      analyzedWords ==
        [i \in 1..Len(words) |-> formatMorphAnalysis(words[i], analyzeWord(words[i]))]
  IN  <<"<", "L", "I", "N", "E", " ">> \o numberToString(LineNumber(index)) \o <<">">>
        \o join(analyzedWords, <<" ">>)

\* analyzeText as a function of its argument
analyzeText(t) ==
  LET ls == KeptLines(t)
  IN  join([i \in 1..Len(ls) |-> AnalyzeLine(ls[i], i - 1)], <<"\n">>)

\* --------------------------------------------- analyzeText as a state machine
TextAlphabet == {"a", "n", ".", " ", "\n"}

Texts(n) == UNION {[1..k -> TextAlphabet] : k \in 0..n}

SampleTexts ==
  { <<"j","o","n","g","o",".","\n","\n","A","f","r","i","k","a">>,
    <<" ","\t","a","\t"," ","n","a","\r","\n"," ","\n","\n","w","a"," ",".">>,
    <<"a","\n","a","\n","a","\n","a","\n","a","\n","a","\n","a","\n","a","\n","a","\n","a","\n","a">> }

InitText ==
  /\ text \in Texts(MaxTextLen) \cup SampleTexts
  /\ lines = <<>> /\ lineIndex = 0 /\ results = <<>> /\ output = <<>>
  /\ tpc = "split"
  /\ WordIdle /\ RequestIdle

\* line 237
AnalyzeTextSplit ==
  /\ tpc = "split"
  /\ lines' = KeptLines(text)
  /\ tpc' = "forEach"
  /\ UNCHANGED <<text, lineIndex, results, output, wordVars, requestVars>>

\* lines 240-252: one call of the forEach callback
AnalyzeTextLine ==
  /\ tpc = "forEach"
  /\ lineIndex < Len(lines)
  /\ results' = Append(results, AnalyzeLine(lines[lineIndex + 1], lineIndex))
  /\ lineIndex' = lineIndex + 1
  /\ UNCHANGED <<text, lines, output, tpc, wordVars, requestVars>>

\* line 254
AnalyzeTextJoin ==
  /\ tpc = "forEach"
  /\ lineIndex = Len(lines)
  /\ output' = join(results, <<"\n">>)
  /\ tpc' = "done"
  /\ UNCHANGED <<text, lines, lineIndex, results, wordVars, requestVars>>

NextText ==
  \/ AnalyzeTextSplit
  \/ AnalyzeTextLine
  \/ AnalyzeTextJoin

SpecText == InitText /\ [][NextText]_vars

\* ------------------------------------------------- TextExtractor.extractFromFile
\* An uploaded file is [extension, readable, content]: the lower-cased
\* path.extname of its name, whether its bytes parse in its format, and the
\* text its extraction yields when it succeeds.
ExtractionThrows(file) ==
  CASE file.extension \in {".txt", ".csv"} -> FALSE
    [] file.extension \in {".pdf", ".doc", ".docx", ".json"} -> ~file.readable
    [] OTHER -> TRUE

\* the message of the Error that extractFromFile rethrows
ExtractionError(file) ==
  IF file.extension \in {".txt", ".csv", ".pdf", ".doc", ".docx", ".json"}
  THEN "Failed to extract text: the document could not be parsed"
  ELSE "Failed to extract text: Unsupported file type"

\* text.split(/\s+/).length and text.split('\n').length
WordCount(t) == Len(splitWhiteSpace(t))

LineCount(t) == Len(split(t, "\n"))

\* a batch item is [kind, value]: a JSON string with its text, or another
\* JSON value; text.split exists only on strings
AnalysisThrows(item) == item.kind # "string"

\* ------------------------------------------------------------ request inputs
FileContents == { <<"a">>, <<"n","a","\n","\n",".">> }

Files ==
  [extension : {".txt", ".pdf", ".json", ".exe"}, readable : BOOLEAN,
   content : FileContents]

BatchItems ==
  [kind : {"string"}, value : FileContents]
    \cup [kind : {"number", "null"}, value : {<<>>}]

Items(S, n) == UNION {[1..k -> S] : k \in 0..n}

NoResponse == [code |-> 0, success |-> FALSE, error |-> "", results |-> <<>>]

Respond(code, success, error, res) ==
  /\ response' = [code |-> code, success |-> success, error |-> error, results |-> res]
  /\ rpc' = "done"

InitRequest ==
  /\ \/ /\ route = "process-files"
        /\ payload \in [isArray : BOOLEAN, items : Items(Files, MaxItems),
                        options : {"absent", "json", "malformed"}]
     \/ /\ route = "process-batch"
        /\ payload \in [isArray : BOOLEAN, items : Items(BatchItems, MaxItems),
                        options : {"absent"}]
  /\ ~payload.isArray => payload.items = <<>>
  /\ itemIndex = 0 /\ records = <<>> /\ response = NoResponse
  /\ rpc = "validate"
  /\ WordIdle /\ TextIdle

\* ---------------------------------------------------- POST /api/process-files
\* line 354: JSON.parse(req.body.options) throws; lines 424-430 answer 500
FilesOptionsMalformed ==
  /\ route = "process-files" /\ rpc = "validate"
  /\ payload.options = "malformed"
  /\ Respond(500, FALSE, "Unexpected token", <<>>)
  /\ UNCHANGED <<route, payload, itemIndex, records, wordVars, textVars>>

\* lines 356-361
FilesNoneUploaded ==
  /\ route = "process-files" /\ rpc = "validate"
  /\ payload.options # "malformed"
  /\ ~payload.isArray \/ Len(payload.items) = 0
  /\ Respond(400, FALSE, "No files uploaded", <<>>)
  /\ UNCHANGED <<route, payload, itemIndex, records, wordVars, textVars>>

\* line 365
FilesAccepted ==
  /\ route = "process-files" /\ rpc = "validate"
  /\ payload.options # "malformed"
  /\ payload.isArray /\ Len(payload.items) # 0
  /\ records' = <<>>
  /\ rpc' = "items"
  /\ UNCHANGED <<route, payload, itemIndex, response, wordVars, textVars>>

\* lines 368-395: the try block runs to its end
FileCompleted ==
  /\ route = "process-files" /\ rpc = "items"
  /\ itemIndex < Len(payload.items)
  /\ LET file == payload.items[itemIndex + 1]
     IN  /\ ~ExtractionThrows(file)
         /\ records' = Append(records,
              [filename |-> itemIndex + 1,
               status |-> "completed",
               extracted_text |-> file.content,
               morphological_analysis |-> analyzeText(file.content),
               word_count |-> WordCount(file.content),
               line_count |-> LineCount(file.content)])
  /\ itemIndex' = itemIndex + 1
  /\ UNCHANGED <<route, payload, response, rpc, wordVars, textVars>>

\* lines 397-408: the catch block
FileFailed ==
  /\ route = "process-files" /\ rpc = "items"
  /\ itemIndex < Len(payload.items)
  /\ LET file == payload.items[itemIndex + 1]
     IN  /\ ExtractionThrows(file)
         /\ records' = Append(records,
              [filename |-> itemIndex + 1,
               status |-> "failed",
               error |-> ExtractionError(file)])
  /\ itemIndex' = itemIndex + 1
  /\ UNCHANGED <<route, payload, response, rpc, wordVars, textVars>>

\* lines 411-422
FilesRespond ==
  /\ route = "process-files" /\ rpc = "items"
  /\ itemIndex = Len(payload.items)
  /\ Respond(200, TRUE, "", records)
  /\ UNCHANGED <<route, payload, itemIndex, records, wordVars, textVars>>

\* ---------------------------------------------------- POST /api/process-batch
\* lines 438-443
BatchInvalid ==
  /\ route = "process-batch" /\ rpc = "validate"
  /\ ~payload.isArray
  /\ Respond(400, FALSE, "Invalid texts array provided", <<>>)
  /\ UNCHANGED <<route, payload, itemIndex, records, wordVars, textVars>>

\* line 447: texts.map begins
BatchAccepted ==
  /\ route = "process-batch" /\ rpc = "validate"
  /\ payload.isArray
  /\ records' = <<>>
  /\ rpc' = "items"
  /\ UNCHANGED <<route, payload, itemIndex, response, wordVars, textVars>>

\* lines 447-457: one call of the map callback that returns
BatchItemMapped ==
  /\ route = "process-batch" /\ rpc = "items"
  /\ itemIndex < Len(payload.items)
  /\ LET item == payload.items[itemIndex + 1]
     IN  /\ ~AnalysisThrows(item)
         /\ records' = Append(records,
              [index |-> itemIndex,
               original_text |-> item.value,
               morphological_analysis |-> analyzeText(item.value),
               word_count |-> WordCount(item.value),
               line_count |-> LineCount(item.value)])
  /\ itemIndex' = itemIndex + 1
  /\ UNCHANGED <<route, payload, response, rpc, wordVars, textVars>>

\* line 448 throws inside the map callback: no try block surrounds the
\* callback, so the handler's catch (lines 470-476) answers 500 and the
\* results of the earlier items are dropped with the abandoned map
BatchItemThrows ==
  /\ route = "process-batch" /\ rpc = "items"
  /\ itemIndex < Len(payload.items)
  /\ AnalysisThrows(payload.items[itemIndex + 1])
  /\ records' = <<>>
  /\ Respond(500, FALSE, "text.split is not a function", <<>>)
  /\ UNCHANGED <<route, payload, itemIndex, wordVars, textVars>>

\* lines 459-468
BatchRespond ==
  /\ route = "process-batch" /\ rpc = "items"
  /\ itemIndex = Len(payload.items)
  /\ Respond(200, TRUE, "", records)
  /\ UNCHANGED <<route, payload, itemIndex, records, wordVars, textVars>>

NextRequest ==
  \/ FilesOptionsMalformed
  \/ FilesNoneUploaded
  \/ FilesAccepted
  \/ FileCompleted
  \/ FileFailed
  \/ FilesRespond
  \/ BatchInvalid
  \/ BatchAccepted
  \/ BatchItemMapped
  \/ BatchItemThrows
  \/ BatchRespond

SpecRequest == InitRequest /\ [][NextRequest]_vars

\* =================================================================== claims
LastTwo(ms) == SubSeq(ms, Len(ms) - 1, Len(ms))

RECURSIVE ConcatMorphs(_)
ConcatMorphs(ms) ==
  IF Len(ms) = 0 THEN <<>> ELSE ms[1].morph \o ConcatMorphs(Tail(ms))

TagsOf(ms) == {ms[i].tag : i \in DOMAIN ms}

\* C1: for every word, analyzeWord returns a morpheme sequence of length at
\* least 1: the call that has returned holds one, and the function of the
\* word is defined and non-empty.
C1_TotalNonEmpty ==
  /\ pc = "done" => Len(morphemes) >= 1
  /\ Len(analyzeWord(originalWord)) >= 1
  /\ pc = "done" => morphemes = analyzeWord(originalWord)

C1_Witness ==
  pc = "done" /\ path = "loop" /\ iterations >= 2 /\ Len(morphemes) >= 1

\* C2: an iteration that fires category 1, 2 or 3 makes remaining strictly
\* shorter, one that fires category 4 or 5 empties it, category 6 leaves the
\* loop, and the number of iterations never exceeds len(lowercase(word)).
C2_LoopTerminates ==
  /\ rule \in {1, 2, 3} => Len(remaining) < Len(before)
  /\ rule \in {4, 5} => remaining = <<>>
  /\ rule = 6 => pc \in {"return", "done"}
  /\ iterations <= Len(toLowerCase(originalWord))

C2_Witness ==
  /\ pc = "done" /\ iterations >= 2
  /\ iterations = Len(toLowerCase(originalWord))

\* C6: the empty word returns exactly [("", "Unknown")]; a non-empty word
\* leaves the loop with at least one morpheme and never returns a morpheme
\* tagged "Unknown".
C6_UnknownOnlyForEmpty ==
  /\ (pc = "done" /\ originalWord = <<>>) =>
        morphemes = << [morph |-> <<>>, tag |-> "Unknown"] >>
  /\ (pc = "done" /\ originalWord # <<>>) => "Unknown" \notin TagsOf(morphemes)
  /\ (pc = "return" /\ originalWord # <<>>) => Len(morphemes) >= 1

C6_Witness ==
  pc = "done" /\ originalWord = <<>> /\ TagsOf(morphemes) = {"Unknown"}

\* the entry of the noun-prefix table that a pattern resolves to: the one
\* written last under that pattern
DeclaredNounEntry(pattern) ==
  nounPrefixesLiteral[
    CHOOSE i \in DOMAIN nounPrefixesLiteral :
      /\ nounPrefixesLiteral[i].key = pattern
      /\ \A j \in (i + 1)..Len(nounPrefixesLiteral) :
           nounPrefixesLiteral[j].key # pattern].value

\* C9: in every iteration the noun-prefix category comes first: if remaining
\* starts with a noun-prefix pattern, the first such pattern in declared
\* order is used, (first character, NPrePre tag) and (basic prefix,
\* "BPre"+class) are pushed and remaining advances by the whole pattern;
\* "umu" resolves to class 3, and NPrePre1 / BPre1 are never emitted.
C9_NounPrefixFirst ==
  /\ rule \in {2, 3, 4, 5, 6} =>
       \A i \in DOMAIN nounPrefixesLiteral :
          ~startsWith(before, nounPrefixesLiteral[i].key)
  /\ rule = 1 =>
       \E i \in DOMAIN nounPrefixesLiteral :
          LET pattern == nounPrefixesLiteral[i].key
              entry == DeclaredNounEntry(pattern)
          IN  /\ startsWith(before, pattern)
              /\ \A j \in 1..(i - 1) : ~startsWith(before, nounPrefixesLiteral[j].key)
              /\ Len(morphemes) >= 2
              /\ LastTwo(morphemes) =
                   << [morph |-> <<pattern[1]>>, tag |-> entry.type],
                      [morph |-> getNounBasicPrefix(entry.class),
                       tag |-> "BPre" \o ToString(entry.class)] >>
              /\ remaining = SubSeq(before, Len(pattern) + 1, Len(before))
  /\ (rule = 1 /\ startsWith(before, <<"u","m","u">>)) =>
       LastTwo(morphemes) = << [morph |-> <<"u">>, tag |-> "NPrePre3"],
                               [morph |-> <<"m","u">>, tag |-> "BPre3"] >>
  /\ TagsOf(morphemes) \cap {"NPrePre1", "BPre1"} = {}

C9_Witness ==
  rule = 1 /\ iterations >= 2 /\ startsWith(before, <<"u","m","u">>)

\* C10: the morphs emitted so far followed by remaining spell lowercase(w)
\* whenever the loop is about to test its condition, and the returned morphs
\* spell lowercase(w) (vocabulary path, stripping loop) or the raw w
\* (punctuation, proper name, empty word).
C10_MorphsSpellWord ==
  /\ pc = "loop" => ConcatMorphs(morphemes) \o remaining = toLowerCase(originalWord)
  /\ pc = "done" =>
       ConcatMorphs(morphemes) =
         IF path \in {"punctuation", "properName"} \/ originalWord = <<>>
         THEN originalWord
         ELSE toLowerCase(originalWord)

C10_Witness ==
  pc = "done" /\ path = "loop" /\ "NPrePre9" \in TagsOf(morphemes) /\ Len(morphemes) >= 3

\* the keys the vocabulary declares, as stored
DeclaredVocabularyKeys == {vocabulary[i].key : i \in DOMAIN vocabulary}

DeclaredVocabularyTag(key) ==
  vocabulary[CHOOSE i \in DOMAIN vocabulary : vocabulary[i].key = key].value

\* C4: the fast paths come in the order punctuation, vocabulary, proper
\* name, each returning one morpheme without running the loop: one of
\* . , ! ? ; : gives (word, "Punc"); else a lowercase form that is a
\* vocabulary key gives (lowercase(word), its tag); else an uppercase first
\* letter and length > 2 give (word, "ProperName"); the loop runs only when
\* none applies.
C4_FastPathOrder ==
  pc = "done" =>
    LET lower == toLowerCase(originalWord)
        punctuation ==
          Len(originalWord) = 1 /\ originalWord[1] \in {".", ",", "!", "?", ";", ":"}
        known == lower \in DeclaredVocabularyKeys
        proper == /\ Len(originalWord) > 2
                  /\ originalWord[1] \in Range(UpperCaseLetters)
    IN  /\ punctuation =>
             morphemes = << [morph |-> originalWord, tag |-> "Punc"] >> /\ iterations = 0
        /\ (~punctuation /\ known) =>
             /\ morphemes = << [morph |-> lower, tag |-> DeclaredVocabularyTag(lower)] >>
             /\ iterations = 0
        /\ (~punctuation /\ ~known /\ proper) =>
             /\ morphemes = << [morph |-> originalWord, tag |-> "ProperName"] >>
             /\ iterations = 0
        /\ path = "loop" => (~punctuation /\ ~known /\ ~proper)

OccursLater(s, p) == \E i \in 1..Len(s) : OccursAt(s, p, i)

\* the 0-based index of the first occurrence of p in s is greater than 0
FirstOccursLater(s, p) == OccursLater(s, p) /\ ~OccursAt(s, p, 0)

FirstOccurrence(s, p) ==
  CHOOSE i \in 0..Len(s) : OccursAt(s, p, i) /\ \A j \in 0..(i - 1) : ~OccursAt(s, p, j)

\* the verb-extension step of the last iteration used the k-th declared
\* pattern, splitting before at index i
UsedExtension(k, i) ==
  LET p == verbExtensions[k].key
  IN  /\ rule = 3
      /\ Len(morphemes) >= 2
      /\ LastTwo(morphemes) =
           << [morph |-> SubSeq(before, 1, i), tag |-> "VRoot"],
              [morph |-> p, tag |-> verbExtensions[k].value] >>
      /\ remaining = SubSeq(before, i + Len(p) + 1, Len(before))

\* C7 as stated: when the verb-extension step is reached, the first declared
\* pattern with ANY occurrence at an index > 0 is used, and a pattern is
\* passed over only if it has no occurrence at an index > 0.
C7_AnyLaterOccurrence ==
  rule \in {3, 4, 5, 6} =>
    IF \E k \in DOMAIN verbExtensions : OccursLater(before, verbExtensions[k].key)
    THEN \E k \in DOMAIN verbExtensions :
           /\ OccursLater(before, verbExtensions[k].key)
           /\ \A j \in 1..(k - 1) : ~OccursLater(before, verbExtensions[j].key)
           /\ \E i \in 1..Len(before) :
                OccursAt(before, verbExtensions[k].key, i) /\ UsedExtension(k, i)
    ELSE rule # 3

\* C7 amended: when the verb-extension step is reached, the first declared
\* pattern whose FIRST occurrence in remaining is at an index > 0 is used,
\* remaining is split at that first occurrence, and a pattern is passed over
\* if and only if it does not occur or its first occurrence is at index 0.
C7_FirstOccurrenceLater ==
  rule \in {3, 4, 5, 6} =>
    IF \E k \in DOMAIN verbExtensions : FirstOccursLater(before, verbExtensions[k].key)
    THEN \E k \in DOMAIN verbExtensions :
           /\ FirstOccursLater(before, verbExtensions[k].key)
           /\ \A j \in 1..(k - 1) : ~FirstOccursLater(before, verbExtensions[j].key)
           /\ UsedExtension(k, FirstOccurrence(before, verbExtensions[k].key))
    ELSE rule # 3

\* a later pattern fired although an earlier one occurs, at index 0 and again later
C7_Witness ==
  /\ rule = 3
  /\ \E k \in DOMAIN verbExtensions :
       /\ OccursAt(before, verbExtensions[k].key, 0)
       /\ OccursLater(before, verbExtensions[k].key)
       /\ morphemes[Len(morphemes)].tag # verbExtensions[k].value

\* positions (1-based) of the text where a line begins, and where it ends
LineStarts(t) == {1} \cup {p + 1 : p \in {q \in 1..Len(t) : t[q] = "\n"}}

LineEnd(t, a) ==
  IF \E p \in a..Len(t) : t[p] = "\n"
  THEN (CHOOSE p \in a..Len(t) : t[p] = "\n" /\ \A q \in a..(p - 1) : t[q] # "\n") - 1
  ELSE Len(t)

Blank(c) == c \in {" ", "\t", "\n", "\r"}

\* the lines that are neither empty nor white space only
KeptStarts(t) == {a \in LineStarts(t) : \E i \in a..LineEnd(t, a) : ~Blank(t[i])}

Nth(S, n) == CHOOSE x \in S : Cardinality({y \in S : y < x}) = n - 1

\* the white-space-delimited words of the line that begins at a
WordStarts(t, a) ==
  {i \in a..LineEnd(t, a) : ~Blank(t[i]) /\ (i = a \/ Blank(t[i - 1]))}

WordAt(t, a, i) ==
  SubSeq(t, i,
    CHOOSE j \in i..LineEnd(t, a) :
      /\ \A q \in i..j : ~Blank(t[q])
      /\ j = LineEnd(t, a) \/ Blank(t[j + 1]))

ExpectedBlock(t, n) ==
  LET a == Nth(KeptStarts(t), n)
      starts == WordStarts(t, a)
      analyses ==
        [j \in 1..Cardinality(starts) |->
           LET w == WordAt(t, a, Nth(starts, j))
           IN  formatMorphAnalysis(w, analyzeWord(w))]
  IN  <<"<", "L", "I", "N", "E", " ">> \o numberToString(n) \o <<">">>
        \o join(analyses, <<" ">>)

\* C5: analyzeText drops every empty or white-space-only line and emits one
\* <LINE n> block per remaining line, in line order, n running 1..k over the
\* k kept lines; each block holds the formatted analyses of the line's
\* white-space-delimited words, in word order, joined by single spaces.
C5_LineFraming ==
  tpc = "done" =>
    /\ Len(results) = Cardinality(KeptStarts(text))
    /\ \A n \in 1..Len(results) : results[n] = ExpectedBlock(text, n)
    /\ output = join(results, <<"\n">>)
    /\ Cardinality({i \in 1..Len(output) : output[i] = "\n"}) =
         IF Len(results) = 0 THEN 0 ELSE Len(results) - 1

\* a blank line precedes a kept line, and some kept line has several words
C5_Witness ==
  /\ tpc = "done"
  /\ Len(results) >= 2
  /\ \E a \in LineStarts(text) \ KeptStarts(text) :
       \E b \in KeptStarts(text) : a < b
  /\ \E a \in KeptStarts(text) : Cardinality(WordStarts(text, a)) >= 2

\* C3: in a multi-file or batch request every input item yields exactly one
\* result record whose status is "completed" or "failed" (with an error
\* message when failed), whatever happens to the other items: the request
\* is answered with one record per item, and an item's record is
\* "completed" exactly when its own extraction and analysis succeed.
C3_PartialFailureIsolation ==
  (rpc = "done" /\ payload.isArray /\ payload.options # "malformed"
     /\ (route = "process-files" => Len(payload.items) > 0)) =>
    /\ response.code = 200
    /\ Len(response.results) = Len(payload.items)
    /\ \A i \in 1..Len(response.results) :
         LET r == response.results[i]
             item == payload.items[i]
             fails == IF route = "process-files"
                      THEN ExtractionThrows(item) ELSE AnalysisThrows(item)
         IN  /\ "status" \in DOMAIN r
             /\ r.status \in {"completed", "failed"}
             /\ r.status = "failed" <=> fails
             /\ r.status = "failed" => ("error" \in DOMAIN r /\ r.error # "")

\* the declared rules that an earlier rule always preempts
ShadowedTags ==
  {"NPrePre10", "BPre10", "RelConc10", "RelConc5", "RelConc2", "QuantStem"}

\* C11: for every word, analyzeWord never emits a morpheme tagged NPrePre10
\* or BPre10 ("izin" comes after "izi"), RelConc10 or RelConc5 ("ezi" and
\* "eli" come after "e"), RelConc2 (common morpheme "aba" comes after noun
\* prefix "aba") or QuantStem ("dwa" is split by verb extension "w"); an
\* iteration that begins on such a pattern fires the preempting rule.
C11_ShadowedRulesNeverFire ==
  /\ TagsOf(morphemes) \cap ShadowedTags = {}
  /\ TagsOf(analyzeWord(originalWord)) \cap ShadowedTags = {}
  /\ (rule # 0 /\ startsWith(before, <<"i","z","i","n">>)) =>
       (rule = 1 /\ remaining = SubSeq(before, 4, Len(before)))
  /\ (rule # 0 /\ startsWith(before, <<"a","b","a">>)) => rule = 1
  /\ (rule # 0 /\ (startsWith(before, <<"e","z","i">>)
                     \/ startsWith(before, <<"e","l","i">>))) =>
       (rule = 2 /\ remaining = SubSeq(before, 2, Len(before)))
  /\ (rule # 0 /\ before = <<"d","w","a">>) => (rule = 3 /\ remaining = <<"a">>)

\* the loop has gone through "dwa" left by an earlier rule, and returned
C11_Witness ==
  /\ pc = "done" /\ path = "loop"
  /\ iterations >= 3
  /\ \E i \in 1..(Len(morphemes) - 2) :
       /\ morphemes[i] = [morph |-> <<"d">>, tag |-> "VRoot"]
       /\ morphemes[i + 1] = [morph |-> <<"w">>, tag |-> "PassExt"]
       /\ morphemes[i + 2] = [morph |-> <<"a">>, tag |-> "NStem"]

====
